---- MODULE Spec2Model ----
(***************************************************************************)
(* Model of the IMAP IDLE client of src/test_imaptools.py:                 *)
(* main() -> IMAPIdleClient.__init__ -> IMAPIdleClient.run, the with-block  *)
(* that owns the MailBox, _handle_initial_connection, _run_idle_loop,      *)
(* idle_callback and process_message, together with the mail server's      *)
(* folder (the \Seen flags) and the environment that makes network calls   *)
(* fail and raises KeyboardInterrupt.                                      *)
(***************************************************************************)
EXTENDS Integers, Sequences, FiniteSets, TLC

\* ---------------------------------------------------------------- bounds
MaxMsgs == 2          \* messages that ever exist in the folder
MaxFaults == 1        \* injected network / login failures
MaxInterrupts == 1    \* KeyboardInterrupt signals
MaxElapsed == 1800    \* the session clock saturates here
MaxTextLen == 3       \* longest plain-text part of a message
MaxHtmlOver == 2      \* how far an HTML part exceeds the excerpt length

\* ------------------------------------------------------ program constants
RenewThreshold == 29 * 60
IdleTimeout == 45

\* ------------------------------------------------------- exception classes
\* caught by `except (ConnectionError, imaplib.IMAP4.abort)` in _run_idle_loop
IdleConnErrors == {"ConnectionError", "abort"}

\* caught by `except (MailboxLoginError, MailboxLogoutError)` in run()
AuthErrors == {"MailboxLoginError", "MailboxLogoutError"}

\* what the MailBox constructor can raise (DNS, TCP, TLS)
ConnectFailures == {"gaierror", "OSError"}

\* what mailbox.login can raise when the server or the network misbehaves
LoginFailures == {"MailboxLoginError", "abort"}

\* what a network failure during idle.wait or fetch surfaces as
NetFailures == {"ConnectionError", "timeout", "OSError"}

Uids == 1..MaxMsgs

VARIABLES
  pc,                   \* position of the single control flow
  done,                 \* run(): done
  creds,                \* EMAIL_USERNAME and EMAIL_PASSWORD are both set
  folderOk,             \* EMAIL_FOLDER names a folder that can be selected
  ssl_context,          \* self.ssl_context: check_hostname and verify_mode
  conn,                 \* the MailBox: "none", "open", "auth", "unclosed"
  dead,                 \* where a network failure broke the connection
  deadExc,              \* the exception class the broken connection raises
  exc,                  \* exception in flight / being handled, or "none"
  breakReason,          \* how the inner loop of run() was left
  flags,                \* server side: uid -> "absent" | "unseen" | "seen"
  notify,               \* the server has an unsolicited response pending
  uids,                 \* fetch(): the uids found by the search
  idx,                  \* fetch(): how many of them have been fetched
  cur,                  \* the message process_message is working on, or 0
  sinkCalls,            \* the calls of process_message, in order
  sinkFailed,           \* messages whose process_message hit an exception
  elapsed,              \* time.monotonic() - connection_start_time
  idleInterrupted,      \* where _run_idle_loop caught a KeyboardInterrupt
  faults,               \* injected failures so far
  interrupts,           \* KeyboardInterrupts so far
  arrivals,             \* messages delivered to the folder after start
  sleeps,               \* 60 s sleeps since the last connect attempt
  exitCode,             \* main()'s return value, -1 while running
  msg,                  \* process_message: msg.text and msg.html
  logged,               \* process_message: the body it logged
  request,              \* web app: the request being handled
  response              \* web app: the response sent, or NoResponse

vars == <<pc, done, creds, folderOk, ssl_context, conn, dead, deadExc, exc,
          breakReason, flags, notify, uids, idx, cur, sinkCalls, sinkFailed,
          elapsed, idleInterrupted, faults, interrupts, arrivals, sleeps,
          exitCode, msg, logged, request, response>>

cfgVars == <<creds, folderOk, ssl_context>>
srvVars == <<flags, notify, arrivals>>
fetchVars == <<uids, idx, cur>>
sinkVars == <<sinkCalls, sinkFailed>>
timeVars == <<elapsed>>
envVars == <<faults, interrupts>>
msgVars == <<msg, logged>>
appVars == <<request, response>>
clientVars == <<pc, done, cfgVars, conn, dead, deadExc, exc, breakReason,
                srvVars, fetchVars, sinkVars, timeVars, idleInterrupted,
                envVars, sleeps, exitCode>>

\* run(): connection_live_time. It is 0.0 when the session starts and is
\* recomputed as time.monotonic() - connection_start_time right before every
\* later test of the inner while condition, the only place that reads it
connection_live_time == elapsed

\* ----------------------------------------------------------------- helpers
Range(s) == {s[i] : i \in 1..Len(s)}

\* a search without the seen=False criterion
Unseen_any(f) == {u \in Uids : f[u] # "absent"}

\* the messages matching the criterion seen=False
Unseen(f) == {u \in Uids : f[u] = "unseen"}

RECURSIVE Ascending(_)
Ascending(S) ==
  IF S = {} THEN <<>>
  ELSE LET m == CHOOSE x \in S : \A y \in S : x <= y
       IN <<m>> \o Ascending(S \ {m})

\* a search answer walked from its newest uid down
SearchUnseen_descending(f) ==
  LET a == Ascending(Unseen(f))
  IN [i \in 1..Len(a) |-> a[Len(a) + 1 - i]]

\* the server's SEARCH UNSEEN answer: uids in ascending order
SearchUnseen(f) == Ascending(Unseen(f))

\* ------------------------------------------- process_message: the body
\* `msg.html[:500]`
HtmlExcerptLen == 500

\* the characters of the modelled texts; " " is whitespace
Chars == {" ", "a"}
Whitespace == {" "}

\* the '...' appended to a cut HTML part
Ellipsis == <<".", ".", ".">>

\* an HTML part of n characters, all positions distinguishable by parity
Html(n) == [i \in 1..n |-> IF i % 2 = 1 THEN "<" ELSE "b"]

\* the messages process_message is tried on: every plain-text part up to
\* MaxTextLen, HTML parts that are empty, short, and around the excerpt
\* length
Texts == UNION {[1..n -> Chars] : n \in 0..MaxTextLen}
HtmlLens == {0, 1} \cup ((HtmlExcerptLen - 1)..(HtmlExcerptLen + MaxHtmlOver))
Msgs == {[text |-> t, html |-> Html(n)] : t \in Texts, n \in HtmlLens}

\* str.strip(): leading and trailing whitespace removed
RECURSIVE LStrip(_)
LStrip(s) ==
  IF s # <<>> /\ Head(s) \in Whitespace THEN LStrip(Tail(s)) ELSE s

RECURSIVE RStrip(_)
RStrip(s) ==
  IF s # <<>> /\ s[Len(s)] \in Whitespace
    THEN RStrip(SubSeq(s, 1, Len(s) - 1))
    ELSE s

Strip(s) == RStrip(LStrip(s))

\* an excerpt that is the whole HTML part
HtmlExcerpt_whole(h) == h

\* `msg.html[:500] + (msg.html[500:] and '...')`
HtmlExcerpt(h) ==
  IF Len(h) > HtmlExcerptLen
    THEN SubSeq(h, 1, HtmlExcerptLen) \o Ellipsis
    ELSE h

\* what process_message logs as the body: `if msg.text:` the stripped
\* text, `elif msg.html:` the excerpt, else nothing
BodyShown(m) ==
  IF m.text # <<>>
    THEN [kind |-> "text", body |-> Strip(m.text)]
    ELSE IF m.html # <<>>
           THEN [kind |-> "html", body |-> HtmlExcerpt(m.html)]
           ELSE [kind |-> "none", body |-> <<>>]

NoMsg == [text |-> <<>>, html |-> <<>>]
NotLogged == [kind |-> "pending", body |-> <<>>]

\* ------------------------------------------------- web app: the routers
\* a URL is modelled by the scheme it starts with
Schemes == {"http://", "https://", "ftp://"}

\* the words create_outlook_subscription looks for in the error message
Keywords == {"Unauthorized", "AuthenticationFailed", "NotFound"}

\* values of the validationToken query parameter
Tokens == {"", "abc", "xyz"}

\* request bodies, and those among them json.loads accepts
Bodies == {"", "not json", "{}", "[]"}
JsonBodies == {"{}", "[]"}

NoRequest ==
  [route |-> "none", envUrl |-> "unset", base |-> "https://",
   graphOk |-> TRUE, errWords |-> {}, hasToken |-> FALSE, token |-> "",
   body |-> ""]

\* POST /api/subscriptions: WEBHOOK_URL of the environment (or unset), the
\* scheme of the request's base URL, and what the Graph call answers
SubscriptionRequests ==
  {[NoRequest EXCEPT !.route = "/api/subscriptions", !.envUrl = e,
                     !.base = b, !.graphOk = (w = {"ok"}),
                     !.errWords = w \ {"ok"}] :
     e \in Schemes \cup {"unset"}, b \in {"http://", "https://"},
     w \in {{"ok"}} \cup SUBSET Keywords}

\* POST /outlook-notify: with or without validationToken, any body
WebhookRequests ==
  {[NoRequest EXCEPT !.route = "/outlook-notify", !.hasToken = TRUE,
                     !.token = t, !.body = b] : t \in Tokens, b \in Bodies}
  \cup
  {[NoRequest EXCEPT !.route = "/outlook-notify", !.body = b] : b \in Bodies}

NoResponse ==
  [status |-> 0, media |-> "none", content |-> "none", selected |-> 0,
   bodyRead |-> FALSE]

\* webhook_url: WEBHOOK_URL if set, else url_for("outlook_notify") with
\* 'http://' replaced by 'https://'
WebhookUrl(r) ==
  IF r.envUrl # "unset" THEN r.envUrl
  ELSE IF r.base = "http://" THEN "https://" ELSE r.base

\* status_code = 500; 401 / 404 by the words found in error_msg
SelectedStatus(w) ==
  IF "Unauthorized" \in w \/ "AuthenticationFailed" \in w THEN 401
  ELSE IF "NotFound" \in w THEN 404
  ELSE 500

\* the status of the HTTPException raised inside the try block of
\* create_outlook_subscription, 0 when the block returns
SubscriptionRaises(r) ==
  IF WebhookUrl(r) # "https://" THEN 400
  ELSE IF r.graphOk THEN 0
  ELSE SelectedStatus(r.errWords)

\* `except Exception as e`: HTTPException is an Exception, so whatever the
\* try block raised is replaced by HTTPException(status_code=500)
SubscriptionExcept(raised) == 500

SubscriptionResponse(r) ==
  LET raised == SubscriptionRaises(r)
  IN IF raised = 0
       THEN [status |-> 201, media |-> "application/json",
             content |-> "success", selected |-> 0, bodyRead |-> FALSE]
       ELSE [status |-> SubscriptionExcept(raised),
             media |-> "application/json", content |-> "error",
             selected |-> raised, bodyRead |-> FALSE]

\* a handler that tests the token's value instead of its presence
WebhookResponse_emptyTokenIgnored(r) ==
  IF r.hasToken /\ r.token # ""
    THEN [status |-> 200, media |-> "text/plain", content |-> r.token,
          selected |-> 0, bodyRead |-> FALSE]
    ELSE IF r.body \in JsonBodies
           THEN [status |-> 200, media |-> "application/json",
                 content |-> "received", selected |-> 0, bodyRead |-> TRUE]
           ELSE [status |-> 500, media |-> "text/plain",
                 content |-> "Internal Server Error", selected |-> 0,
                 bodyRead |-> TRUE]

\* outlook_webhook: the token as plain text when validationToken is a query
\* parameter; else `await request.json()`, which raises on a body that is
\* not JSON (the server answers 500), and {"status": "received"}
WebhookResponse(r) ==
  IF r.hasToken
    THEN [status |-> 200, media |-> "text/plain", content |-> r.token,
          selected |-> 0, bodyRead |-> FALSE]
    ELSE IF r.body \in JsonBodies
           THEN [status |-> 200, media |-> "application/json",
                 content |-> "received", selected |-> 0, bodyRead |-> TRUE]
           ELSE [status |-> 500, media |-> "text/plain",
                 content |-> "Internal Server Error", selected |-> 0,
                 bodyRead |-> TRUE]

\* the session clock after a wait of d seconds. The clock counts the idle
\* waits that ran their full 45 s; a wait cut short by a notification or an
\* interrupt and the pauses between waits add nothing to it, so elapsed is
\* a lower bound of the time the session has been alive
Tick(t, d) == IF t + d > MaxElapsed THEN MaxElapsed ELSE t + d

\* run() with only its first outer handler, without `except Exception`
RunExcept_noCatchAll(e) ==
  IF e \in {"TimeoutError", "ConnectionError", "abort", "herror", "gaierror",
            "timeout"}
    THEN "cooldown" ELSE "exited"

\* the handlers of run() that follow the with-block: the one for
\* (TimeoutError, ConnectionError, abort, herror, gaierror, timeout) and
\* the one for Exception both log and sleep 60 s; a KeyboardInterrupt is
\* no Exception and leaves run()
RunExcept(e) == IF e = "KeyboardInterrupt" THEN "exited" ELSE "cooldown"

\* a main() without its `except KeyboardInterrupt` clause
MainExit_noInterruptClause(e) == IF e = "none" THEN 0 ELSE 1

\* main(): KeyboardInterrupt -> 0, any other exception -> 1
MainExit(e) == IF e \in {"none", "KeyboardInterrupt"} THEN 0 ELSE 1

\* _run_idle_loop's handlers for an exception raised by idle.wait or by
\* idle_callback: connection errors are re-raised as ConnectionError, reach
\* run()'s `except Exception: break`; anything else is logged and the
\* while True loop goes on after a one second sleep
IdleLoopExcept(e) == IF e \in IdleConnErrors THEN "exitwith" ELSE "sleep1"

\* a process_message without its try/except
ProcessMessageExcept_uncaught(e) == "raises"

\* process_message wraps its whole body in try/except Exception: an
\* exception of the body is logged and the call returns
ProcessMessageExcept(e) == "returns"

\* ------------------------------------------------------------------- Init
ClientInit ==
  /\ pc = "init"
  /\ done = FALSE
  /\ creds \in BOOLEAN
  /\ folderOk \in BOOLEAN
  /\ ssl_context = [check_hostname |-> FALSE, verify_mode |-> "unset"]
  /\ conn = "none"
  /\ dead = "no"
  /\ deadExc = "none"
  /\ exc = "none"
  /\ breakReason = "none"
  /\ \E n \in 0..MaxMsgs :
       flags = [u \in Uids |-> IF u <= n THEN "unseen" ELSE "absent"]
  /\ notify = FALSE
  /\ uids = <<>>
  /\ idx = 0
  /\ cur = 0
  /\ sinkCalls = <<>>
  /\ sinkFailed = {}
  /\ elapsed = 0
  /\ idleInterrupted = "no"
  /\ faults = 0
  /\ interrupts = 0
  /\ arrivals = 0
  /\ sleeps = 0
  /\ exitCode = -1

Init ==
  /\ ClientInit
  /\ msg = NoMsg
  /\ logged = NotLogged
  /\ request = NoRequest
  /\ response = NoResponse

\* ---------------------------------------------------------------- actions
\* main() constructs the client: __init__ builds self.ssl_context with
\* ssl.create_default_context(), then sets check_hostname = False and
\* verify_mode = ssl.CERT_NONE; it raises ValueError without credentials,
\* which main() turns into exit code 1
Construct ==
  /\ pc = "init"
  /\ ssl_context' = [check_hostname |-> FALSE, verify_mode |-> "CERT_NONE"]
  /\ IF creds
       THEN /\ pc' = "connect"
            /\ UNCHANGED <<exc, exitCode>>
       ELSE /\ pc' = "exited"
            /\ exc' = "ValueError"
            /\ exitCode' = MainExit("ValueError")
  /\ UNCHANGED <<done, creds, folderOk, msgVars, appVars, conn, dead,
                 deadExc, breakReason, srvVars, fetchVars, sinkVars,
                 timeVars, idleInterrupted, envVars, sleeps>>

\* top of `while not done`: reset the clocks, MailBox(self.imap_server)
ConnectOk ==
  /\ pc = "connect"
  /\ pc' = "setup"
  /\ conn' = "open"
  /\ dead' = "no"
  /\ deadExc' = "none"
  /\ notify' = FALSE
  /\ elapsed' = 0
  /\ sleeps' = 0
  /\ UNCHANGED <<done, cfgVars, msgVars, appVars, exc, breakReason, flags,
                 arrivals, fetchVars, sinkVars, idleInterrupted, envVars,
                 exitCode>>

ConnectFails ==
  /\ pc = "connect"
  /\ faults < MaxFaults
  /\ \E e \in ConnectFailures :
       /\ exc' = e
       /\ pc' = RunExcept(e)
  /\ faults' = faults + 1
  /\ elapsed' = 0
  /\ sleeps' = 0
  /\ UNCHANGED <<done, cfgVars, msgVars, appVars, conn, dead, deadExc,
                 breakReason, srvVars, fetchVars, sinkVars, idleInterrupted,
                 interrupts, exitCode>>

\* _handle_initial_connection up to and including mailbox.login
Login ==
  /\ pc = "setup"
  /\ IF ~creds
       THEN /\ exc' = "ValueError"
            /\ pc' = "exitwith"
            /\ UNCHANGED <<conn, faults>>
       ELSE \/ /\ folderOk
               /\ conn' = "auth"
               /\ pc' = "initfetch"
               /\ UNCHANGED <<exc, faults>>
            \/ /\ ~folderOk
               /\ conn' = "auth"
               /\ exc' = "MailboxFolderSelectError"
               /\ pc' = "exitwith"
               /\ UNCHANGED faults
            \/ /\ faults < MaxFaults
               /\ faults' = faults + 1
               /\ \E e \in LoginFailures :
                    /\ exc' = e
                    /\ pc' = IF e \in AuthErrors THEN "authsleep"
                                                 ELSE "exitwith"
               /\ UNCHANGED conn
  /\ UNCHANGED <<done, cfgVars, msgVars, appVars, dead, deadExc, breakReason,
                 srvVars, fetchVars, sinkVars, timeVars, idleInterrupted,
                 interrupts, exitCode, sleeps>>

\* the login handler without its time.sleep(60)
AuthSleep_nosleep ==
  /\ pc = "authsleep"
  /\ pc' = "exitwith"
  /\ exc' = "none"
  /\ breakReason' = "auth"
  /\ UNCHANGED <<done, cfgVars, msgVars, appVars, conn, dead, deadExc,
                 srvVars, fetchVars, sinkVars, timeVars, idleInterrupted,
                 envVars, sleeps, exitCode>>

\* `except (MailboxLoginError, MailboxLogoutError)`: sleep 60 s inside the
\* with-block, then fall out of it
AuthSleep ==
  /\ pc = "authsleep"
  /\ pc' = "exitwith"
  /\ exc' = "none"
  /\ breakReason' = "auth"
  /\ sleeps' = sleeps + 1
  /\ UNCHANGED <<done, cfgVars, msgVars, appVars, conn, dead, deadExc,
                 srvVars, fetchVars, sinkVars, timeVars, idleInterrupted,
                 envVars, exitCode>>

\* list(mailbox.fetch(AND(seen=False))): counts the unread messages. fetch's
\* mark_seen defaults to True, so the server flags every fetched message
\* \Seen. Any exception is logged as a warning and setup goes on
InitialFetch ==
  /\ pc = "initfetch"
  /\ \/ /\ flags' = [u \in Uids |->
                       IF flags[u] = "unseen" THEN "seen" ELSE flags[u]]
        /\ UNCHANGED <<dead, deadExc, faults>>
     \/ /\ faults < MaxFaults
        /\ faults' = faults + 1
        /\ dead' = "initfetch"
        /\ \E e \in NetFailures : deadExc' = e
        /\ UNCHANGED flags
  /\ pc' = "check"
  /\ UNCHANGED <<done, cfgVars, msgVars, appVars, conn, exc, breakReason,
                 notify, arrivals, fetchVars, sinkVars, timeVars,
                 idleInterrupted, interrupts, exitCode, sleeps>>

\* `while connection_live_time < 29 * 60`
Check ==
  /\ pc = "check"
  /\ IF connection_live_time < RenewThreshold
       THEN /\ pc' = "idlestart"
            /\ UNCHANGED breakReason
       ELSE /\ pc' = "exitwith"
            /\ breakReason' = "renew"
  /\ UNCHANGED <<done, cfgVars, msgVars, appVars, conn, dead, deadExc, exc,
                 srvVars, fetchVars, sinkVars, timeVars, idleInterrupted,
                 envVars, exitCode, sleeps>>

\* _run_idle_loop: the two log lines before its try block
IdleStart ==
  /\ pc = "idlestart"
  /\ pc' = "wait"
  /\ UNCHANGED <<done, cfgVars, msgVars, appVars, conn, dead, deadExc, exc,
                 breakReason, srvVars, fetchVars, sinkVars, timeVars,
                 idleInterrupted, envVars, exitCode, sleeps>>

\* a loop without `if responses:`, calling idle_callback after every wait
WaitTimeout_drains ==
  /\ pc = "wait"
  /\ dead = "no"
  /\ ~notify
  /\ elapsed' = Tick(elapsed, IdleTimeout)
  /\ uids' = SearchUnseen(flags)
  /\ idx' = 0
  /\ pc' = "drain"
  /\ UNCHANGED <<done, cfgVars, msgVars, appVars, conn, dead, deadExc, exc,
                 breakReason, srvVars, cur, sinkVars, idleInterrupted,
                 envVars, exitCode, sleeps>>

\* mailbox.idle.wait(timeout=45) returns [] after 45 s without a server
\* notification: "No new emails in the last 45 seconds", next iteration
WaitTimeout ==
  /\ pc = "wait"
  /\ dead = "no"
  /\ ~notify
  /\ elapsed' = Tick(elapsed, IdleTimeout)
  /\ UNCHANGED <<pc, done, cfgVars, msgVars, appVars, conn, dead, deadExc,
                 exc, breakReason, srvVars, fetchVars, sinkVars,
                 idleInterrupted, envVars, exitCode, sleeps>>

\* idle.wait returns the server's responses; idle_callback starts its fetch,
\* whose search collects the unseen uids
WaitActivity ==
  /\ pc = "wait"
  /\ dead = "no"
  /\ notify
  /\ notify' = FALSE
  /\ \E d \in {0, IdleTimeout} : elapsed' = Tick(elapsed, d)
  /\ uids' = SearchUnseen(flags)
  /\ idx' = 0
  /\ pc' = "drain"
  /\ UNCHANGED <<done, cfgVars, msgVars, appVars, conn, dead, deadExc, exc,
                 breakReason, flags, arrivals, cur, sinkVars,
                 idleInterrupted, envVars, exitCode, sleeps>>

\* an exception e leaves the inner try of _run_idle_loop
IdleLoopRaise(e) ==
  /\ pc' = IdleLoopExcept(e)
  /\ breakReason' = IF IdleLoopExcept(e) = "exitwith" THEN "error"
                                                      ELSE breakReason
  /\ uids' = <<>>
  /\ idx' = 0
  /\ cur' = 0

\* the network fails during idle.wait
WaitFails ==
  /\ pc = "wait"
  /\ dead = "no"
  /\ faults < MaxFaults
  /\ faults' = faults + 1
  /\ \E e \in NetFailures :
       /\ dead' = "wait"
       /\ deadExc' = e
       /\ IdleLoopRaise(e)
  /\ UNCHANGED <<done, cfgVars, msgVars, appVars, conn, exc, srvVars,
                 sinkVars, timeVars, idleInterrupted, interrupts, exitCode,
                 sleeps>>

\* idle.wait on a connection that is already broken raises again
WaitOnDead ==
  /\ pc = "wait"
  /\ dead # "no"
  /\ IdleLoopRaise(deadExc)
  /\ UNCHANGED <<done, cfgVars, msgVars, appVars, conn, dead, deadExc, exc,
                 srvVars, sinkVars, timeVars, idleInterrupted, envVars,
                 exitCode, sleeps>>

\* `time.sleep(1)  # Prevent tight loop on errors`, then `while True` again
Sleep1 ==
  /\ pc = "sleep1"
  /\ pc' = "wait"
  /\ UNCHANGED <<elapsed, done, cfgVars, msgVars, appVars, conn, dead,
                 deadExc, exc, breakReason, srvVars, fetchVars, sinkVars,
                 idleInterrupted, envVars, exitCode, sleeps>>

\* a fetch loop that tests the session age before each message
FetchNext_renewsMidDrain ==
  /\ pc = "drain"
  /\ idx < Len(uids)
  /\ IF connection_live_time < RenewThreshold
       THEN /\ LET u == uids[idx + 1]
               IN /\ flags' = [flags EXCEPT ![u] = "seen"]
                  /\ cur' = u
                  /\ sinkCalls' = Append(sinkCalls, u)
            /\ idx' = idx + 1
            /\ pc' = "sink"
            /\ UNCHANGED breakReason
       ELSE /\ pc' = "exitwith"
            /\ breakReason' = "renew"
            /\ UNCHANGED <<flags, cur, sinkCalls, idx>>
  /\ UNCHANGED <<done, cfgVars, msgVars, appVars, conn, dead, deadExc, exc,
                 notify, arrivals, uids, sinkFailed, timeVars,
                 idleInterrupted, envVars, exitCode, sleeps>>

\* idle_callback: fetch(A(seen=False), mark_seen=True) fetches the next uid
\* with BODY[], which makes the server set \Seen, and yields the message;
\* the loop body calls process_message on it
FetchNext ==
  /\ pc = "drain"
  /\ idx < Len(uids)
  /\ LET u == uids[idx + 1]
     IN /\ flags' = [flags EXCEPT ![u] = "seen"]
        /\ cur' = u
        /\ sinkCalls' = Append(sinkCalls, u)
  /\ idx' = idx + 1
  /\ pc' = "sink"
  /\ UNCHANGED <<done, cfgVars, msgVars, appVars, conn, dead, deadExc, exc,
                 breakReason, notify, arrivals, uids, sinkFailed, timeVars,
                 idleInterrupted, envVars, exitCode, sleeps>>

\* the network fails during the search or a fetch of idle_callback, which
\* logs and re-raises
FetchFails ==
  /\ pc = "drain"
  /\ faults < MaxFaults
  /\ faults' = faults + 1
  /\ \E e \in NetFailures :
       /\ dead' = "drain"
       /\ deadExc' = e
       /\ IdleLoopRaise(e)
  /\ UNCHANGED <<done, cfgVars, msgVars, appVars, conn, exc, srvVars,
                 sinkVars, timeVars, idleInterrupted, interrupts, exitCode,
                 sleeps>>

\* the generator is exhausted: idle_callback returns, `while True` again
DrainDone ==
  /\ pc = "drain"
  /\ idx = Len(uids)
  /\ pc' = "wait"
  /\ uids' = <<>>
  /\ idx' = 0
  /\ UNCHANGED <<done, cfgVars, msgVars, appVars, conn, dead, deadExc, exc,
                 breakReason, srvVars, cur, sinkVars, timeVars,
                 idleInterrupted, envVars, exitCode, sleeps>>

\* process_message logs the message and returns
ProcessMessageOk ==
  /\ pc = "sink"
  /\ pc' = "drain"
  /\ cur' = 0
  /\ UNCHANGED <<done, cfgVars, msgVars, appVars, conn, dead, deadExc, exc,
                 breakReason, srvVars, uids, idx, sinkVars, timeVars,
                 idleInterrupted, envVars, exitCode, sleeps>>

\* the body of process_message raises an Exception
ProcessMessageFails ==
  /\ pc = "sink"
  /\ sinkFailed' = sinkFailed \cup {cur}
  /\ IF ProcessMessageExcept("Exception") = "returns"
       THEN /\ pc' = "drain"
            /\ cur' = 0
            /\ UNCHANGED <<uids, idx, breakReason>>
       ELSE IdleLoopRaise("Exception")
  /\ UNCHANGED <<done, cfgVars, msgVars, appVars, conn, dead, deadExc, exc,
                 srvVars, sinkCalls, timeVars, idleInterrupted, envVars,
                 exitCode, sleeps>>

\* MailBox.__exit__ logs out and closes the connection; then either the
\* handlers of run() take the exception in flight, or `while not done`
ExitWith ==
  /\ pc = "exitwith"
  /\ conn' = "none"
  /\ dead' = "no"
  /\ deadExc' = "none"
  /\ IF exc = "none"
       THEN /\ pc' = IF done THEN "stopped" ELSE "connect"
            /\ UNCHANGED exitCode
       ELSE /\ pc' = RunExcept(exc)
            /\ exitCode' = IF RunExcept(exc) = "exited" THEN MainExit(exc)
                                                        ELSE exitCode
  /\ UNCHANGED <<done, cfgVars, msgVars, appVars, exc, breakReason, srvVars,
                 fetchVars, sinkVars, timeVars, idleInterrupted, envVars,
                 sleeps>>

\* the LOGOUT of MailBox.__exit__ fails on a broken connection: the
\* exception it raises replaces the one in flight and reaches the handlers
\* of run(); the socket is left to the garbage collector
ExitWithFails ==
  /\ pc = "exitwith"
  /\ dead # "no"
  /\ conn' = "unclosed"
  /\ dead' = "no"
  /\ deadExc' = "none"
  /\ exc' = "abort"
  /\ pc' = RunExcept("abort")
  /\ UNCHANGED <<done, cfgVars, msgVars, appVars, breakReason, srvVars,
                 fetchVars, sinkVars, timeVars, idleInterrupted, envVars,
                 exitCode, sleeps>>

\* "Reconnecting in 60 seconds...": time.sleep(60) of the outer handlers,
\* then `while not done`
Cooldown ==
  /\ pc = "cooldown"
  /\ pc' = IF done THEN "stopped" ELSE "connect"
  /\ exc' = "none"
  /\ breakReason' = "none"
  /\ sleeps' = sleeps + 1
  /\ UNCHANGED <<done, cfgVars, msgVars, appVars, conn, dead, deadExc,
                 srvVars, fetchVars, sinkVars, timeVars, idleInterrupted,
                 envVars, exitCode>>

\* run() returned: "IMAP client stopped", main() returns 0
MainReturn ==
  /\ pc = "stopped"
  /\ pc' = "exited"
  /\ exitCode' = MainExit("none")
  /\ UNCHANGED <<done, cfgVars, msgVars, appVars, conn, dead, deadExc, exc,
                 breakReason, srvVars, fetchVars, sinkVars, timeVars,
                 idleInterrupted, envVars, sleeps>>

\* -------------------------------------------------------- KeyboardInterrupt
\* inside the outer try of _run_idle_loop: `except KeyboardInterrupt` logs
\* "Exiting IDLE mode..." and the function returns normally; run() then
\* recomputes connection_live_time and re-tests its while condition
InterruptInIdleLoop ==
  /\ pc \in {"wait", "drain", "sink", "sleep1"}
  /\ interrupts < MaxInterrupts
  /\ interrupts' = interrupts + 1
  /\ idleInterrupted' = pc
  /\ pc' = "check"
  /\ uids' = <<>>
  /\ idx' = 0
  /\ cur' = 0
  /\ UNCHANGED <<done, cfgVars, msgVars, appVars, conn, dead, deadExc, exc,
                 breakReason, srvVars, sinkVars, elapsed, faults, exitCode,
                 sleeps>>

\* inside run()'s inner try but before _run_idle_loop's own try:
\* "Shutdown requested by user", done = True, break
InterruptAtIdleStart ==
  /\ pc = "idlestart"
  /\ interrupts < MaxInterrupts
  /\ interrupts' = interrupts + 1
  /\ done' = TRUE
  /\ breakReason' = "cancel"
  /\ pc' = "exitwith"
  /\ UNCHANGED <<cfgVars, msgVars, appVars, conn, dead, deadExc, exc,
                 srvVars, fetchVars, sinkVars, timeVars, idleInterrupted,
                 faults, exitCode, sleeps>>

\* inside the with-block but outside the inner try: no handler of run()
\* catches it, the with-block closes the mailbox and run() raises
InterruptInSession ==
  /\ pc \in {"setup", "initfetch", "check", "authsleep"}
  /\ interrupts < MaxInterrupts
  /\ interrupts' = interrupts + 1
  /\ exc' = "KeyboardInterrupt"
  /\ pc' = "exitwith"
  /\ UNCHANGED <<done, cfgVars, msgVars, appVars, conn, dead, deadExc,
                 breakReason, srvVars, fetchVars, sinkVars, timeVars,
                 idleInterrupted, faults, exitCode, sleeps>>

\* outside the with-block (connecting, or sleeping 60 s): run() raises and
\* main() logs "Shutdown requested by user" and returns 0
InterruptOutsideSession ==
  /\ pc \in {"connect", "cooldown"}
  /\ interrupts < MaxInterrupts
  /\ interrupts' = interrupts + 1
  /\ exc' = "KeyboardInterrupt"
  /\ pc' = RunExcept("KeyboardInterrupt")
  /\ exitCode' = MainExit("KeyboardInterrupt")
  /\ UNCHANGED <<done, cfgVars, msgVars, appVars, conn, dead, deadExc,
                 breakReason, srvVars, fetchVars, sinkVars, timeVars,
                 idleInterrupted, faults, sleeps>>

\* ------------------------------------------------------------- mail server
\* a new message is delivered to the folder; a client that is idling on a
\* working connection gets an unsolicited EXISTS response
Arrive ==
  /\ pc \notin {"init", "stopped", "exited"}
  /\ \E u \in Uids :
       /\ flags[u] = "absent"
       /\ \A v \in Uids : v < u => flags[v] # "absent"
       /\ flags' = [flags EXCEPT ![u] = "unseen"]
  /\ arrivals' = arrivals + 1
  /\ notify' = IF pc = "wait" /\ dead = "no" THEN TRUE ELSE notify
  /\ UNCHANGED <<pc, done, cfgVars, msgVars, appVars, conn, dead, deadExc,
                 exc, breakReason, fetchVars, sinkVars, timeVars,
                 idleInterrupted, envVars, exitCode, sleeps>>

\* ------------------------------------------------------------ specification
ClientStep ==
  \/ Construct
  \/ ConnectOk
  \/ ConnectFails
  \/ Login
  \/ AuthSleep
  \/ InitialFetch
  \/ Check
  \/ IdleStart
  \/ WaitTimeout
  \/ WaitActivity
  \/ WaitFails
  \/ WaitOnDead
  \/ Sleep1
  \/ FetchNext
  \/ FetchFails
  \/ DrainDone
  \/ ProcessMessageOk
  \/ ProcessMessageFails
  \/ ExitWith
  \/ ExitWithFails
  \/ Cooldown
  \/ MainReturn

Interrupt ==
  \/ InterruptInIdleLoop
  \/ InterruptAtIdleStart
  \/ InterruptInSession
  \/ InterruptOutsideSession

Next == ClientStep \/ Interrupt \/ Arrive

Spec == Init /\ [][Next]_vars

\* the single control flow keeps running: whatever step the client is at
\* is eventually taken
FairSpec == Spec /\ WF_vars(ClientStep)

\* process_message on one message, on its own: the body it logs
LogBody ==
  /\ logged = NotLogged
  /\ logged' = BodyShown(msg)
  /\ UNCHANGED <<msg, appVars, clientVars>>

BodyInit ==
  /\ ClientInit
  /\ msg \in Msgs
  /\ logged = NotLogged
  /\ request = NoRequest
  /\ response = NoResponse

BodyNext == LogBody

BodySpec == BodyInit /\ [][BodyNext]_vars

\* POST /api/subscriptions
create_outlook_subscription ==
  /\ request.route = "/api/subscriptions"
  /\ response = NoResponse
  /\ response' = SubscriptionResponse(request)
  /\ UNCHANGED <<request, msgVars, clientVars>>

\* POST /outlook-notify
outlook_webhook ==
  /\ request.route = "/outlook-notify"
  /\ response = NoResponse
  /\ response' = WebhookResponse(request)
  /\ UNCHANGED <<request, msgVars, clientVars>>

AppInit ==
  /\ ClientInit
  /\ msg = NoMsg
  /\ logged = NotLogged
  /\ request \in SubscriptionRequests \cup WebhookRequests
  /\ response = NoResponse

AppNext == create_outlook_subscription \/ outlook_webhook

AppSpec == AppInit /\ [][AppNext]_vars

TypeOK ==
  /\ pc \in {"init", "connect", "setup", "authsleep", "initfetch", "check",
             "idlestart", "wait", "drain", "sink", "sleep1", "exitwith",
             "cooldown", "stopped", "exited"}
  /\ done \in BOOLEAN
  /\ ssl_context \in [check_hostname : BOOLEAN,
                      verify_mode : {"unset", "CERT_NONE", "CERT_REQUIRED"}]
  /\ conn \in {"none", "open", "auth", "unclosed"}
  /\ dead \in {"no", "initfetch", "wait", "drain"}
  /\ flags \in [Uids -> {"absent", "unseen", "seen"}]
  /\ idx \in 0..Len(uids)
  /\ cur \in 0..MaxMsgs
  /\ elapsed \in 0..MaxElapsed
  /\ faults \in 0..MaxFaults
  /\ interrupts \in 0..MaxInterrupts
  /\ sleeps \in 0..2
  /\ exitCode \in {-1, 0, 1}
  /\ msg \in Msgs \cup {NoMsg}
  /\ logged.kind \in {"pending", "none", "text", "html"}
  /\ request \in {NoRequest} \cup SubscriptionRequests \cup WebhookRequests
  /\ response.status \in {0, 200, 201, 400, 401, 404, 500}
  /\ response.bodyRead \in BOOLEAN

\* ------------------------------------------------------------------ claims
\* the failures the specification classifies as Fatal: local configuration
\* errors found at connection setup
FatalErrors == {"ValueError", "MailboxFolderSelectError"}

\* C1: once a network failure during an idle wait or a drain has broken the
\* session, the client eventually holds a new authenticated, working
\* session and is idling on it again (or has been stopped), the injected
\* failures being finitely many.
C1_ReconnectsAfterFailure ==
  (dead \in {"wait", "drain"}) ~>
    \/ (conn = "auth" /\ dead = "no" /\ pc = "wait")
    \/ pc \in {"stopped", "exited"}

\* C2: a message is flagged seen on the server only if process_message has
\* been called for it.
C2_SeenOnlyIfSunk ==
  \A u \in Uids : flags[u] = "seen" => u \in Range(sinkCalls)

\* C3: while process_message is working on a message of a drain, that
\* message is not yet flagged seen: the flag is set only after the call
\* has returned.
C3_SeenOnlyAfterSinkReturns ==
  pc = "sink" => flags[cur] # "seen"

\* C4: without failures and interrupts, no idle wait is running on a session
\* that has been alive for more than the renewal threshold plus one idle
\* timeout.
C4_RenewalByThreshold ==
  (faults = 0 /\ interrupts = 0 /\ pc = "wait")
    => elapsed <= RenewThreshold + IdleTimeout

\* C5: after a KeyboardInterrupt that hit an idle wait, no idle wait is
\* running again.
C5_CancelInWaitStopsWaiting ==
  idleInterrupted = "wait" => pc # "wait"

\* C6: a Fatal failure is never answered with the 60 s sleep and a retry.
C6_FatalNotRetried ==
  pc = "cooldown" => exc \notin FatalErrors

\* C7: after the inner loop was left because of a failure, the next
\* connect attempt starts only after a cooldown sleep.
C7_CooldownBeforeReconnect ==
  pc = "connect" => breakReason # "error"

\* C8: after a network failure during an idle wait, no idle wait and no
\* fetch is issued on that session any more.
C8_WaitFailureEndsSession ==
  pc \in {"wait", "drain", "sink"} => dead # "wait"

\* C9: with N unseen messages at connect, no later arrivals, no failures and
\* no interrupts, the idling client has delivered exactly those N messages,
\* in arrival order.
C9_UnseenAtConnectDelivered ==
  (pc = "wait" /\ arrivals = 0 /\ faults = 0 /\ interrupts = 0)
    => sinkCalls = Ascending({u \in Uids : flags[u] # "absent"})

\* C10: an exception in process_message for one message does not abort the
\* drain: the fetch loop goes on with the messages found and not yet
\* fetched, and a drain returns to the idle loop only when process_message
\* has been called for every message it found.
C10_SinkFailureKeepsDraining ==
  [][/\ (pc = "sink" /\ sinkFailed' # sinkFailed)
          => (pc' = "drain" /\ uids' = uids /\ idx' = idx)
     /\ (pc = "drain" /\ pc' = "wait")
          => (\A i \in 1..Len(uids) : uids[i] \in Range(sinkCalls))]_vars

\* process_message is being called for the message that follows, in the
\* same drain, one whose call failed
C10_Witness ==
  /\ pc = "sink"
  /\ idx >= 2
  /\ uids[idx - 1] \in sinkFailed
  /\ cur = uids[idx]

\* C11: connection errors, timeouts, protocol aborts and login rejections
\* never end run(): once the client is constructed, run() is left only by a
\* KeyboardInterrupt, either through done or as the exception that escapes.
C11_OnlyInterruptEndsRun ==
  (creds /\ pc \in {"stopped", "exited"})
    => (interrupts > 0 /\ (done \/ exc = "KeyboardInterrupt"))

\* after an injected failure the client is idling again on a working,
\* authenticated session
C11_Witness ==
  /\ faults > 0
  /\ pc = "wait"
  /\ conn = "auth"
  /\ dead = "no"

\* C12: the connect attempt that follows a rejected login is preceded by
\* exactly one 60 s sleep, and a login that then succeeds goes on to the
\* initial fetch and the idle loop.
C12_OneCooldownAfterRejectedLogin ==
  [][/\ (pc' = "connect" /\ breakReason' = "auth") => sleeps' = 1
     /\ (breakReason = "auth" /\ pc = "setup" /\ pc' = "initfetch")
          => (conn' = "auth" /\ exc' = "none" /\ sleeps' = 0)]_vars

\* the login after a rejected one has succeeded and the client is idling
C12_Witness ==
  /\ breakReason = "auth"
  /\ pc = "wait"
  /\ conn = "auth"
  /\ dead = "no"

\* C13: when the with-block is left because connection_live_time reached
\* the renewal threshold, no 60 s sleep follows: the step that closes the
\* session does not lead into a cooldown.
C13_RenewalWithoutCooldown ==
  [][(pc = "exitwith" /\ exc = "none" /\ breakReason = "renew")
       => pc' # "cooldown"]_vars

\* C14: a KeyboardInterrupt that arrives between two idle waits (after a
\* drain or in the pause after an error) stops the client: no idle wait and
\* no connect attempt follows; one that escapes as an exception is on its
\* way out of run().
C14_CancelAtBoundaryExits ==
  /\ idleInterrupted \in {"drain", "sleep1"} => pc \notin {"wait", "connect"}
  /\ exc = "KeyboardInterrupt" => pc \in {"exitwith", "exited"}

\* C15: whenever the next connect attempt starts, and whenever run() has
\* returned or raised, the connection of the previous session is closed.
C15_ClosedOnEveryExitPath ==
  pc \in {"connect", "stopped", "exited"} => conn = "none"

\* C16: process_message is called only for a message that is unseen when
\* it is fetched and that no earlier call has received: no message is
\* delivered twice, within a drain or across a reconnection.
C16_SinkOnlyForUnseen ==
  [][sinkCalls' # sinkCalls =>
       LET u == sinkCalls'[Len(sinkCalls')]
       IN /\ sinkCalls' = Append(sinkCalls, u)
          /\ flags[u] = "unseen"
          /\ u \notin Range(sinkCalls)]_vars

\* after a connection error and the reconnection a message is in the sink
\* while another one, delivered before, is seen
C16_Witness ==
  /\ breakReason = "error"
  /\ pc = "sink"
  /\ \E u \in Uids : u # cur /\ flags[u] = "seen" /\ u \in Range(sinkCalls)

\* C17: during a drain the uids to deliver are in ascending (arrival)
\* order, the calls of process_message made so far are exactly the first
\* idx of them in that order, and the message in the sink is the idx-th.
C17_AscendingDelivery ==
  pc \in {"drain", "sink"} =>
    /\ \A i, j \in 1..Len(uids) : i < j => uids[i] < uids[j]
    /\ idx <= Len(uids)
    /\ idx <= Len(sinkCalls)
    /\ \A i \in 1..idx : sinkCalls[Len(sinkCalls) - idx + i] = uids[i]
    /\ pc = "sink" => cur = uids[idx]

\* a drain of several messages has delivered all of them
C17_Witness ==
  /\ pc = "drain"
  /\ Len(uids) >= 2
  /\ idx = Len(uids)
  /\ sinkFailed = {}

\* C18: an exception that is neither a connection error nor a login error
\* ends the session it was raised in (the idle wait is not resumed on it)
\* and does not stop the watcher.
C18_UnknownFailureIsTransient ==
  /\ (dead \in {"wait", "drain"} /\ deadExc \notin IdleConnErrors)
       => pc # "wait"
  /\ pc \in {"stopped", "exited"}
       => exc \notin (ConnectFailures \cup NetFailures \cup {"abort"})

\* C19: the with-block is left for renewal only from the while condition
\* of run(), when no drain is in progress.
C19_NoRenewalMidDrain ==
  [][(pc # "exitwith" /\ pc' = "exitwith" /\ exc' = "none"
        /\ breakReason' = "renew")
       => (pc = "check" /\ uids = <<>> /\ idx = 0 /\ cur = 0)]_vars

\* a session that has delivered messages is closed for renewal
C19_Witness ==
  /\ pc = "exitwith"
  /\ breakReason = "renew"
  /\ exc = "none"
  /\ sinkCalls # <<>>

\* C20: an idle wait that runs its full 45 s without a notification leaves
\* the client waiting on the same session: no fetch, no sink call, no flag
\* change, no sleep, no exception; and a drain starts only from a wait that
\* was notified.
C20_TimeoutIsNotAnError ==
  [][/\ (pc = "wait" /\ ~notify /\ elapsed' # elapsed)
          => /\ pc' = "wait"
             /\ conn' = conn
             /\ dead' = dead
             /\ exc' = exc
             /\ flags' = flags
             /\ sinkCalls' = sinkCalls
             /\ uids' = uids
             /\ idx' = idx
             /\ sleeps' = sleeps
     /\ (pc = "wait" /\ pc' = "drain") => notify]_vars

\* the client is waiting again after a wait that timed out
C20_Witness ==
  /\ pc = "wait"
  /\ conn = "auth"
  /\ dead = "no"
  /\ ~notify
  /\ elapsed >= IdleTimeout
  /\ sinkCalls = <<>>

\* C21: a step that opens a connection to the mail server starts from a
\* state in which no connection of this client exists: the previous one has
\* been closed.
C21_OneConnectionAtATime ==
  [][(conn # "open" /\ conn' = "open") => conn = "none"]_vars

\* C22: when main() has returned, its exit code is 1 exactly when a fatal
\* error (local misconfiguration) ended the client, and it is 0 only after
\* a KeyboardInterrupt; no other failure produces a non-zero exit code.
C22_NonZeroExitOnlyWhenFatal ==
  /\ exitCode = 1 => (pc = "exited" /\ exc \in FatalErrors)
  /\ pc = "exited" =>
       /\ exitCode \in {0, 1}
       /\ exc \in FatalErrors => exitCode = 1
       /\ exitCode = 0 =>
            (interrupts > 0 /\ (done \/ exc = "KeyboardInterrupt"))

\* main() has returned 0 on a KeyboardInterrupt, after a failure that had
\* been retried
C22_Witness ==
  /\ pc = "exited"
  /\ exitCode = 0
  /\ exc = "KeyboardInterrupt"
  /\ faults > 0

\* C25: while run() sleeps 60 s after a failure (in the login handler or
\* in the outer handlers), the connection of the failed session is closed.
C25_NoConnectionDuringCooldown ==
  pc \in {"authsleep", "cooldown"} => conn = "none"

\* C23: no configuration opts in to insecure TLS, so the TLS settings of a
\* constructed client validate the certificate and the hostname.
C23_TlsValidationByDefault ==
  pc # "init" =>
    /\ ssl_context.check_hostname
    /\ ssl_context.verify_mode = "CERT_REQUIRED"

\* C24: once process_message has logged a message, the body shown is the
\* plain text (without its surrounding whitespace) whenever the message has
\* one; otherwise, when it has HTML, it is an excerpt of the HTML: the whole
\* HTML up to 500 characters, and for a longer HTML its first 500
\* characters and nothing more of it, marked as cut; a message with neither
\* gets no body.
C24_BodySelection ==
  logged.kind # "pending" =>
    /\ msg.text # <<>> =>
         (logged.kind = "text" /\ logged.body = Strip(msg.text))
    /\ (msg.text = <<>> /\ msg.html # <<>>) =>
         /\ logged.kind = "html"
         /\ LET n == IF Len(msg.html) < HtmlExcerptLen THEN Len(msg.html)
                                                       ELSE HtmlExcerptLen
            IN /\ Len(logged.body) >= n
               /\ SubSeq(logged.body, 1, n) = SubSeq(msg.html, 1, n)
               /\ SubSeq(logged.body, n + 1, Len(logged.body))
                    \in {<<>>, Ellipsis}
    /\ (msg.text = <<>> /\ msg.html = <<>>) =>
         (logged.kind = "none" /\ logged.body = <<>>)

\* a message without text whose HTML is longer than the excerpt was logged
C24_Witness ==
  /\ logged.kind = "html"
  /\ msg.text = <<>>
  /\ Len(msg.html) > HtmlExcerptLen

\* C26: the response of POST /api/subscriptions carries the status the
\* handler selected: 400 when the webhook URL does not start with https://,
\* 401 for an Unauthorized or AuthenticationFailed error, 404 for a NotFound
\* error, 500 for any other failure; a successful creation answers
\* "success".
C26_SubscriptionStatus ==
  (request.route = "/api/subscriptions" /\ response # NoResponse) =>
    IF WebhookUrl(request) # "https://" THEN response.status = 400
    ELSE IF request.graphOk THEN response.content = "success"
    ELSE IF request.errWords \cap {"Unauthorized", "AuthenticationFailed"}
              # {}
           THEN response.status = 401
    ELSE IF "NotFound" \in request.errWords THEN response.status = 404
    ELSE response.status = 500

\* C27: POST /outlook-notify with a validationToken query parameter is
\* answered 200 with the token as plain text and the body unread; every
\* other request is answered with {"status": "received"}.
C27_WebhookAnswers ==
  (request.route = "/outlook-notify" /\ response # NoResponse) =>
    IF request.hasToken
      THEN /\ response.status = 200
           /\ response.media = "text/plain"
           /\ response.content = request.token
           /\ ~response.bodyRead
      ELSE /\ response.status = 200
           /\ response.content = "received"

\* C27 as amended: a request with a validationToken query parameter is
\* answered 200 with the token as plain text and the body unread; any other
\* request is answered {"status": "received"} when its body is JSON, and
\* with a server error, not "received", when it is not.
C27_WebhookAnswersJson ==
  (request.route = "/outlook-notify" /\ response # NoResponse) =>
    IF request.hasToken
      THEN /\ response.status = 200
           /\ response.media = "text/plain"
           /\ response.content = request.token
           /\ ~response.bodyRead
      ELSE IF request.body \in JsonBodies
             THEN /\ response.status = 200
                  /\ response.content = "received"
                  /\ response.bodyRead
             ELSE /\ response.status = 500
                  /\ response.content # "received"

\* a notification with a JSON body has been answered
C27_Witness ==
  /\ request.route = "/outlook-notify"
  /\ ~request.hasToken
  /\ request.body \in JsonBodies
  /\ response.content = "received"

====
